---- MODULE Spec2Model ----
(***************************************************************************)
(* Fleen: a static-site authoring tool.  This module models the path       *)
(* classifier and Markdown renderer (renderer.rs), the compiler, build     *)
(* orchestrator and deploy pipeline (fleen_app.rs) and the preview         *)
(* server's request handler (server.rs) over an explicit filesystem.       *)
(*                                                                         *)
(* A file name is a sequence of tokens ("a", ".", "md"); a path is a       *)
(* sequence of names.  The disk maps absolute paths to nodes.              *)
(***************************************************************************)
EXTENDS Integers, Sequences, FiniteSets, TLC

VARIABLES disk, ret, jobs, calls, ui, files_cache

vars == <<disk, ret, jobs, calls, ui, files_cache>>

----------------------------------------------------------------------------
(* Bounds of the model *)

\* Largest number of entries below the site root in an initial tree
MaxEntries == 3

\* Largest number of build_and_deploy calls in one behaviour
MaxJobs == 1

\* Largest number of compile and build_site calls in one behaviour
MaxBuilds == 2

\* Largest number of resolver calls and preview requests in one behaviour
MaxResolves == 1

\* Largest number of deploys started from the window in one behaviour
MaxDeploys == 2

\* Largest number of create, delete, rename and paste calls in one behaviour
MaxEdits == 1

----------------------------------------------------------------------------
(* Names and paths *)

nHome    == <<"home">>
nSite    == <<"site">>
nTmp     == <<"tmp">>
nOut     == <<"out">>
nNowhere == <<"nowhere">>
nOld     == <<"old", ".", "txt">>
nUnder   == <<"_", "x">>
nMd      == <<"index", ".", "md">>
nHtml    == <<"index", ".", "html">>
nTxt     == <<"r", ".", "txt">>
nSkipMd  == <<"_", "s", ".", "md">>
nSkipHtml == <<"_", "s", ".", "html">>
nDir     == <<"d">>
nSub     == <<"e">>
nLayouts == <<"_", "layouts">>
nPost    == <<"post", ".", "html">>
nScripts == <<"_", "scripts">>
nDeploy  == <<"deploy", ".", "sh">>
nDotDot  == <<".", ".">>
nMissing == <<"zz">>
nImages  == <<"images">>
nKeep    == <<".", "keep">>
nGit     == <<".", "git">>
nNew     == <<"new", ".", "md">>
nDraft   == <<".", "draft">>

\* image_<random>.png: the names unique_image_name draws from
ImageName(i) == <<"image_", ToString(i), ".", "png">>

\* FleenApp.root: the absolute path of the site root
root == <<nHome, nSite>>

\* A PathBuf: absolute or relative, with its components
Rel(segs) == [abs |-> FALSE, segs |-> segs]
Abs(segs) == [abs |-> TRUE, segs |-> segs]

\* Path::join: an absolute argument replaces the base
join(base, p) == IF p.abs THEN p.segs ELSE base \o p.segs

\* Path::ancestors().any(|a| a == q): q is p or one of p's ancestors
IsPrefix(q, p) == Len(q) <= Len(p) /\ SubSeq(p, 1, Len(q)) = q

\* Index of the last "." of a file name, 0 when there is none
RECURSIVE LastDot(_, _)
LastDot(name, i) ==
    IF i = 0 THEN 0
    ELSE IF name[i] = "." THEN i ELSE LastDot(name, i - 1)

\* Path::file_name is None for an empty path and for a path ending in ".."
HasFileName(p) == Len(p.segs) > 0 /\ p.segs[Len(p.segs)] # nDotDot

\* Path::extension: the part after the last ".", when the name has a "."
\* that is not its first character; <<>> stands for None
extension(p) ==
    IF ~HasFileName(p) THEN <<>>
    ELSE LET name == p.segs[Len(p.segs)]
             k == LastDot(name, Len(name))
         IN IF k <= 1 THEN <<>> ELSE <<SubSeq(name, k + 1, Len(name))>>

\* Path::with_extension: replace (or add) the extension of the last component
with_extension(p, ext) ==
    IF ~HasFileName(p) THEN p
    ELSE LET n == Len(p.segs)
             name == p.segs[n]
             k == LastDot(name, Len(name))
             stem == IF k <= 1 THEN name ELSE SubSeq(name, 1, k - 1)
         IN [p EXCEPT !.segs = SubSeq(p.segs, 1, n - 1) \o <<stem \o <<".">> \o ext>>]

\* One component makes the path skipped: ".." or a leading underscore
SkippedSegment(el) == el = nDotDot \/ (Len(el) > 0 /\ el[1] = "_")

\* A slip: only the file name is looked at, not the directories above it
skipped_path_last(source) ==
    Len(source.segs) > 0 /\ SkippedSegment(source.segs[Len(source.segs)])

skipped_path(source) ==
    \E i \in 1..Len(source.segs) : SkippedSegment(source.segs[i])

----------------------------------------------------------------------------
(* The filesystem *)

NoFm == [present |-> FALSE, valid |-> TRUE, hasLayout |-> FALSE,
         layout |-> Rel(<<>>), title |-> <<>>, published |-> "none"]

DirNode == [kind |-> "dir", text |-> <<>>, fm |-> NoFm]
FileNode(text, fm) == [kind |-> "file", text |-> text, fm |-> fm]

\* A path no disk holds: what a lookup through a missing directory finds
Unresolved == <<<<"?">>>>

\* Path resolution by the filesystem: ".." leaves the directory reached so
\* far (the filesystem root is its own parent)
RECURSIVE Resolve(_, _, _)
Resolve(d, p, at) ==
    IF p = <<>> THEN at
    ELSE IF Head(p) # nDotDot THEN Resolve(d, Tail(p), Append(at, Head(p)))
    ELSE IF at \in DOMAIN d /\ d[at].kind = "dir"
         THEN Resolve(d, Tail(p), IF at = <<>> THEN at ELSE SubSeq(at, 1, Len(at) - 1))
         ELSE Unresolved

exists(d, p) == Resolve(d, p, <<>>) \in DOMAIN d
is_dir(d, p) == exists(d, p) /\ d[Resolve(d, p, <<>>)].kind = "dir"
is_file(d, p) == exists(d, p) /\ d[Resolve(d, p, <<>>)].kind = "file"

\* The node a path leads to
Node(d, p) == d[Resolve(d, p, <<>>)]

\* The entries of directory p
Children(d, p) == {q \in DOMAIN d : Len(q) = Len(p) + 1 /\ IsPrefix(p, q)}

\* Everything strictly below p
Below(d, p) == {q \in DOMAIN d : Len(q) > Len(p) /\ IsPrefix(p, q)}

Restrict(d, S) == [q \in S |-> d[q]]

\* fs::remove_dir_all / fs::remove_file
RemoveTree(d, p) == Restrict(d, {q \in DOMAIN d : ~IsPrefix(p, q)})

ParentOk(d, p) == Len(p) > 0 /\ is_dir(d, SubSeq(p, 1, Len(p) - 1))

Put(d, p, node) == [q \in DOMAIN d \cup {p} |-> IF q = p THEN node ELSE d[q]]

----------------------------------------------------------------------------
(* renderer.rs: render outputs, errors and the Markdown renderer *)

NoPath == Rel(<<>>)

Rendered(path, content) == [kind |-> "Rendered", path |-> path, content |-> content]
Hidden(path, content) == [kind |-> "Hidden", path |-> path, content |-> content]
RawFile(path) == [kind |-> "RawFile", path |-> path, content |-> <<>>]
NoOutput == [kind |-> "NoOutput", path |-> NoPath, content |-> <<>>]
Dir(path) == [kind |-> "Dir", path |-> path, content |-> <<>>]

\* Errors: RenderError variants and FleenError variants share one shape
NoErr == [kind |-> "none", cause |-> "none", path |-> NoPath, text |-> <<>>]
FileRead(path) == [NoErr EXCEPT !.kind = "FileRead", !.path = path]
FrontmatterParse(path) == [NoErr EXCEPT !.kind = "FrontmatterParse", !.path = path]
\* FleenError::RenderError(#[from] RenderError)
FromRenderError(e) == [NoErr EXCEPT !.kind = "RenderError", !.cause = e.kind, !.path = e.path]
TargetDir == [NoErr EXCEPT !.kind = "TargetDir"]
Io(path) == [NoErr EXCEPT !.kind = "Io", !.path = path]
ScriptMissing == [NoErr EXCEPT !.kind = "ScriptMissing"]
DeployError(text) == [NoErr EXCEPT !.kind = "DeployError", !.text = text]

\* Option<T>
None == <<>>
Some(x) == <<x>>

Ok(v) == [ok |-> TRUE, val |-> v, err |-> NoErr]
Err(e) == [ok |-> FALSE, val |-> NoOutput, err |-> e]

\* str::replace on a text of tokens: every occurrence of pat becomes repl
RECURSIVE replace(_, _, _)
replace(text, pat, repl) ==
    IF text = <<>> THEN <<>>
    ELSE (IF Head(text) = pat THEN repl ELSE <<Head(text)>>)
         \o replace(Tail(text), pat, repl)

\* markdown::to_html_with_options: the Markdown body as HTML
to_html(text) == <<"<p>">> \o text \o <<"</p>">>

\* A slip: a page is published only when its front-matter says so
apply_layout_opt_in(d, fm, content, filename, rt) ==
    LET title == fm.title
        absolute_layout == join(rt, fm.layout)
        published == fm.published = "true"
        out(wrapped) ==
            IF published THEN Rendered(with_extension(filename, <<"html">>), wrapped)
            ELSE Hidden(with_extension(filename, <<"html">>), wrapped)
    IN IF fm.hasLayout
       THEN IF ~is_file(d, absolute_layout)
            THEN Err(FileRead(Abs(absolute_layout)))
            ELSE Ok(out(replace(replace(Node(d, absolute_layout).text, "$title", title),
                                "$content", content)))
       ELSE Ok(out(content))

apply_layout(d, fm, content, filename, rt) ==
    LET title == fm.title
        absolute_layout == join(rt, fm.layout)
        published == fm.published # "false"
        out(wrapped) ==
            IF published THEN Rendered(with_extension(filename, <<"html">>), wrapped)
            ELSE Hidden(with_extension(filename, <<"html">>), wrapped)
    IN IF fm.hasLayout
       THEN IF ~is_file(d, absolute_layout)
            THEN Err(FileRead(Abs(absolute_layout)))
            ELSE Ok(out(replace(replace(Node(d, absolute_layout).text, "$title", title),
                                "$content", content)))
       ELSE Ok(out(content))

render_as_markdown(d, source, rt) ==
    LET absolute_source == join(rt, source)
    IN IF ~is_file(d, absolute_source) THEN Err(FileRead(source))
       ELSE LET node == Node(d, absolute_source)
                html == to_html(node.text)
            IN IF node.fm.present
               THEN IF ~node.fm.valid THEN Err(FrontmatterParse(source))
                    ELSE apply_layout(d, node.fm, html, source, rt)
               ELSE Ok(Rendered(with_extension(source, <<"html">>), html))

\* A slip: the preview resolver without its .html -> .md fallback
server_render_plain(d, source, rt) ==
    LET ext == extension(source)
    IN IF skipped_path(source) THEN Ok(NoOutput)
       ELSE IF is_dir(d, join(rt, source)) THEN Ok(Dir(source))
       ELSE IF exists(d, join(rt, source))
            THEN IF ext = <<<<"md">>>> THEN Ok(NoOutput) ELSE Ok(RawFile(source))
       ELSE Ok(NoOutput)

server_render(d, source, rt) ==
    LET ext == extension(source)
    IN IF skipped_path(source) THEN Ok(NoOutput)
       ELSE IF is_dir(d, join(rt, source)) THEN Ok(Dir(source))
       ELSE IF exists(d, join(rt, source))
            THEN IF ext = <<<<"md">>>> THEN Ok(NoOutput) ELSE Ok(RawFile(source))
       ELSE IF ext = <<<<"html">>>> /\ exists(d, join(rt, with_extension(source, <<"md">>)))
            THEN render_as_markdown(d, with_extension(source, <<"md">>), rt)
       ELSE Ok(NoOutput)

\* A slip: whatever exists is classified by its extension before it is
\* asked whether it is a directory
file_render_extension_first(d, source, rt) ==
    LET ext == extension(source)
    IN IF skipped_path(source) THEN Ok(NoOutput)
       ELSE IF exists(d, join(rt, source)) /\ ext # <<>>
            THEN IF ext = <<<<"md">>>> THEN render_as_markdown(d, source, rt)
                 ELSE Ok(RawFile(source))
       ELSE IF is_dir(d, join(rt, source)) THEN Ok(Dir(source))
       ELSE IF exists(d, join(rt, source)) THEN Ok(RawFile(source))
       ELSE Ok(NoOutput)

\* A slip: the build resolver takes the preview's .html -> .md fallback
file_render_fallback(d, source, rt) ==
    LET ext == extension(source)
    IN IF skipped_path(source) THEN Ok(NoOutput)
       ELSE IF is_dir(d, join(rt, source)) THEN Ok(Dir(source))
       ELSE IF exists(d, join(rt, source))
            THEN IF ext = <<<<"md">>>> THEN render_as_markdown(d, source, rt)
                 ELSE Ok(RawFile(source))
       ELSE IF ext = <<<<"html">>>> /\ exists(d, join(rt, with_extension(source, <<"md">>)))
            THEN render_as_markdown(d, with_extension(source, <<"md">>), rt)
       ELSE Ok(NoOutput)

\* A slip: a Markdown source is copied like any other file
file_render_raw(d, source, rt) ==
    IF skipped_path(source) THEN Ok(NoOutput)
    ELSE IF is_dir(d, join(rt, source)) THEN Ok(Dir(source))
    ELSE IF exists(d, join(rt, source)) THEN Ok(RawFile(source))
    ELSE Ok(NoOutput)

file_render(d, source, rt) ==
    LET ext == extension(source)
    IN IF skipped_path(source) THEN Ok(NoOutput)
       ELSE IF is_dir(d, join(rt, source)) THEN Ok(Dir(source))
       ELSE IF exists(d, join(rt, source))
            THEN IF ext = <<<<"md">>>> THEN render_as_markdown(d, source, rt)
                 ELSE Ok(RawFile(source))
       ELSE Ok(NoOutput)

----------------------------------------------------------------------------
(* fleen_app.rs: the compiler and the build orchestrator *)

\* The names a directory listing can hold, in one enumeration order
Listing ==
    <<nMd, nHtml, nTxt, nSkipMd, nDir, nSub, nLayouts, nPost, nScripts, nDeploy,
      nImages, nKeep, nGit, nNew, nDraft, nUnder>>
    \o [i \in 1..MaxEdits |-> ImageName(i)]

\* read_dir enumerates in an order the filesystem chooses
Orders == {"forward", "backward"}

RECURSIVE Reverse(_)
Reverse(s) == IF s = <<>> THEN <<>> ELSE Append(Reverse(Tail(s)), Head(s))

RECURSIVE Filter(_, _)
Filter(s, S) ==
    IF s = <<>> THEN <<>>
    ELSE (IF Head(s) \in S THEN <<Head(s)>> ELSE <<>>) \o Filter(Tail(s), S)

\* The same names in the opposite enumeration order
ListingBackward == Reverse(Listing)

\* read_dir: the file names of the entries of directory p, in order ord
read_dir(d, p, ord) ==
    Filter(IF ord = "forward" THEN Listing ELSE ListingBackward,
           {q[Len(q)] : q \in Children(d, p)})

CompileOk(acts) == [ok |-> TRUE, acts |-> acts, err |-> NoErr]
CompileErr(e, acts) == [ok |-> FALSE, acts |-> acts, err |-> e]

\* compile's inner visit_dir: one render output per entry, then the entries
\* of a child directory, stopping at the first render error
RECURSIVE visit_dir(_, _, _, _, _)
RECURSIVE visit_entries(_, _, _, _, _, _)

\* The rest of the loop once the child directory (if any) has been visited
visit_rest(d, dir, rt, ord, files, sub) ==
    IF ~sub.ok THEN sub
    ELSE visit_entries(d, dir, rt, ord, Tail(files), sub.acts)

\* The outputs of a visited directory followed by one more output
push_after(sub, out) ==
    IF sub.ok THEN CompileOk(Append(sub.acts, out)) ELSE sub

\* A slip: the output of a directory is pushed after those of its entries
visit_entry_late(d, dir, rt, ord, files, sources, r) ==
    IF ~r.ok THEN CompileErr(r.err, sources)
    ELSE IF is_dir(d, rt \o dir \o <<Head(files)>>)
    THEN visit_rest(d, dir, rt, ord, files,
                    push_after(visit_dir(d, dir \o <<Head(files)>>, rt, ord, sources), r.val))
    ELSE visit_rest(d, dir, rt, ord, files, CompileOk(Append(sources, r.val)))

\* One iteration of the loop, r being the render output of the entry: push
\* it, then recurse when the entry is a directory
visit_entry(d, dir, rt, ord, files, sources, r) ==
    IF ~r.ok THEN CompileErr(r.err, sources)
    ELSE IF is_dir(d, rt \o dir \o <<Head(files)>>)
    THEN visit_rest(d, dir, rt, ord, files,
                    visit_dir(d, dir \o <<Head(files)>>, rt, ord, Append(sources, r.val)))
    ELSE visit_rest(d, dir, rt, ord, files, CompileOk(Append(sources, r.val)))

visit_entries(d, dir, rt, ord, files, sources) ==
    IF files = <<>> THEN CompileOk(sources)
    ELSE visit_entry(d, dir, rt, ord, files, sources,
                     file_render(d, Rel(dir \o <<Head(files)>>), rt))

visit_dir(d, dir, rt, ord, sources) ==
    visit_entries(d, dir, rt, ord, read_dir(d, rt \o dir, ord), sources)

\* compile's last two lines: the ? converts the render error
compile_result(r) ==
    IF r.ok THEN r ELSE CompileErr(FromRenderError(r.err), <<>>)

compile(d, rt, ord) == compile_result(visit_dir(d, <<>>, rt, ord, <<>>))

FsOk(d) == [ok |-> TRUE, disk |-> d, err |-> NoErr]
FsErr(d, e) == [ok |-> FALSE, disk |-> d, err |-> e]

\* fs::write and the destination side of fs::copy: the parent must be a
\* directory and the destination must not be one; the file lands where the
\* filesystem resolves the path to
WriteFile(d, p, node) ==
    IF ParentOk(d, p) /\ ~is_dir(d, p) THEN FsOk(Put(d, Resolve(d, p, <<>>), node))
    ELSE FsErr(d, Io(Abs(p)))

\* fs::create_dir fails when the path exists or its parent is missing
create_dir(d, p) ==
    IF ParentOk(d, p) /\ ~exists(d, p) THEN FsOk(Put(d, Resolve(d, p, <<>>), DirNode))
    ELSE FsErr(d, Io(Abs(p)))

\* A slip: a Hidden output is written like a Rendered one
file_operation_hidden(d, action, rt, target) ==
    CASE action.kind \in {"Rendered", "Hidden"} ->
            WriteFile(d, join(target, action.path), FileNode(action.content, NoFm))
      [] action.kind = "NoOutput" -> FsOk(d)
      [] action.kind = "RawFile" ->
            WriteFile(d, join(target, action.path), Node(d, join(rt, action.path)))
      [] action.kind = "Dir" -> create_dir(d, join(target, action.path))

\* RenderOutput::file_operation
file_operation(d, action, rt, target) ==
    CASE action.kind = "Rendered" ->
            WriteFile(d, join(target, action.path), FileNode(action.content, NoFm))
      [] action.kind \in {"Hidden", "NoOutput"} -> FsOk(d)
      [] action.kind = "RawFile" ->
            IF is_file(d, join(rt, action.path))
            THEN WriteFile(d, join(target, action.path), Node(d, join(rt, action.path)))
            ELSE FsErr(d, Io(Abs(join(rt, action.path))))
      [] action.kind = "Dir" -> create_dir(d, join(target, action.path))

\* build_site's last loop: apply the actions in list order, stop at an error
RECURSIVE apply_actions(_, _, _, _)

\* The loop after one file operation with outcome r
apply_rest(r, actions, rt, target) ==
    IF ~r.ok THEN r ELSE apply_actions(r.disk, Tail(actions), rt, target)

apply_actions(d, actions, rt, target) ==
    IF actions = <<>> THEN FsOk(d)
    ELSE apply_rest(file_operation(d, Head(actions), rt, target), actions, rt, target)

\* A slip: only a target that holds the root is rejected
TargetInvalid_ancestor(rt, target) == IsPrefix(target, rt)

\* build_site's first check: is either directory an ancestor of the other
TargetInvalid(rt, target) == IsPrefix(target, rt) \/ IsPrefix(rt, target)

\* A slip: the clean step removes the files of target and keeps its
\* directories
clear_target_files(d, target) ==
    Restrict(d, DOMAIN d \ {q \in Below(d, Resolve(d, target, <<>>)) : d[q].kind = "file"})

\* build_site's clean step: every entry inside the directory target leads
\* to is removed
clear_target(d, target) == Restrict(d, DOMAIN d \ Below(d, Resolve(d, target, <<>>)))

\* build_site after compile() has returned r on the cleared disk
build_compiled(cleared, r, rt, target) ==
    IF ~r.ok THEN FsErr(cleared, r.err)
    ELSE apply_actions(cleared, r.acts, rt, target)

\* The outputs collected up to a render error, applied before it is returned
apply_partial(cleared, r, rt, target) ==
    IF ~r.ok THEN FsErr(apply_actions(cleared, r.acts, rt, target).disk,
                        FromRenderError(r.err))
    ELSE apply_actions(cleared, r.acts, rt, target)

\* A slip: the outputs collected before a render error are still applied
build_cleared_partial(cleared, rt, target, ord) ==
    apply_partial(cleared, visit_dir(cleared, <<>>, rt, ord, <<>>), rt, target)

\* build_site after the clean step: compile, then apply
build_cleared(cleared, rt, target, ord) ==
    build_compiled(cleared, compile(cleared, rt, ord), rt, target)

build_site(d, rt, target, ord) ==
    IF TargetInvalid(rt, target) THEN FsErr(d, TargetDir)
    ELSE IF ~is_dir(d, target) THEN FsErr(d, Io(Abs(target)))
    ELSE build_cleared(clear_target(d, target), rt, target, ord)

----------------------------------------------------------------------------
(* fleen_app.rs: the tree cache and the calls that edit the site *)

TreeFile(path) == [kind |-> "File", path |-> path]
TreeDir(path) == [kind |-> "Dir", path |-> path]
CloseDir == [kind |-> "CloseDir", path |-> <<>>]

\* refresh_file_cache's inner visit_dir: files whose name does not start
\* with a dot, and directories with their entries between Dir and CloseDir
RECURSIVE tree_visit_dir(_, _, _, _)
RECURSIVE tree_visit_entries(_, _, _, _, _)

\* A slip: dot files are listed like any other file
tree_visit_entries_all(d, dir, names, ord, entries) ==
    IF names = <<>> THEN entries
    ELSE IF is_file(d, dir \o <<Head(names)>>)
    THEN tree_visit_entries(d, dir, Tail(names), ord,
                            Append(entries, TreeFile(dir \o <<Head(names)>>)))
    ELSE IF is_dir(d, dir \o <<Head(names)>>)
    THEN tree_visit_entries(d, dir, Tail(names), ord,
                            Append(tree_visit_dir(d, dir \o <<Head(names)>>, ord,
                                                  Append(entries, TreeDir(dir \o <<Head(names)>>))),
                                   CloseDir))
    ELSE tree_visit_entries(d, dir, Tail(names), ord, entries)

tree_visit_entries(d, dir, names, ord, entries) ==
    IF names = <<>> THEN entries
    ELSE IF is_file(d, dir \o <<Head(names)>>) /\ Head(names)[1] # "."
    THEN tree_visit_entries(d, dir, Tail(names), ord,
                            Append(entries, TreeFile(dir \o <<Head(names)>>)))
    ELSE IF is_dir(d, dir \o <<Head(names)>>)
    THEN tree_visit_entries(d, dir, Tail(names), ord,
                            Append(tree_visit_dir(d, dir \o <<Head(names)>>, ord,
                                                  Append(entries, TreeDir(dir \o <<Head(names)>>))),
                                   CloseDir))
    ELSE tree_visit_entries(d, dir, Tail(names), ord, entries)

tree_visit_dir(d, dir, ord, entries) ==
    tree_visit_entries(d, dir, read_dir(d, dir, ord), ord, entries)

\* A slip: the walk forgets the CloseDir of the root
walk_unclosed(d, rt, ord) == tree_visit_dir(d, rt, ord, <<TreeDir(rt)>>)

\* The body of refresh_file_cache: Dir(root), the walk, CloseDir
walk(d, rt, ord) == Append(tree_visit_dir(d, rt, ord, <<TreeDir(rt)>>), CloseDir)

\* refresh_file_cache: rebuild when the cache is empty or force is set;
\* read_dir().unwrap() panics when the root cannot be read
refresh_file_cache(d, cache, force, ord) ==
    IF cache # None /\ ~force THEN [panicked |-> FALSE, cache |-> cache]
    ELSE IF ~is_dir(d, root) THEN [panicked |-> TRUE, cache |-> cache]
    ELSE [panicked |-> FALSE, cache |-> Some(walk(d, root, ord))]

\* FleenError variants of the editing calls
FileIo(path) == [NoErr EXCEPT !.kind = "FileIo", !.path = Abs(path)]
FileExists(path) == [NoErr EXCEPT !.kind = "FileExists", !.path = Abs(path)]
FileCreate(path) == [NoErr EXCEPT !.kind = "FileCreate", !.path = Abs(path)]
NoImageDir == [NoErr EXCEPT !.kind = "NoImageDir"]
NoClipboardImage == [NoErr EXCEPT !.kind = "NoClipboardImage"]

\* What an editing call leaves behind: the disk, the cache and its result
Edited(d, r, res) ==
    [disk |-> d, cache |-> r.cache, panicked |-> r.panicked, res |-> res]

\* The call failed before it changed anything
Refused(d, cache, e) ==
    [disk |-> d, cache |-> cache, panicked |-> FALSE, res |-> Err(e)]

\* The tail of a call that changed the disk: refresh_file_cache(true)
refreshed(d, cache, ord, res) ==
    Edited(d, refresh_file_cache(d, cache, TRUE, ord), res)

\* while target.is_file() { target.pop(); }
RECURSIVE PopFiles(_, _)
PopFiles(d, p) ==
    IF is_file(d, p) THEN PopFiles(d, SubSeq(p, 1, Len(p) - 1)) ELSE p

\* The contents create_page writes: a template for .md and .html names
Template(name) ==
    IF Len(name) > 1 /\ name[Len(name)] \in {"md", "html"} /\ name[Len(name) - 1] = "."
    THEN FileNode(<<"template">>, NoFm) ELSE FileNode(<<>>, NoFm)

\* create_page: opened says whether the editor could be started on the new
\* file
create_page(d, cache, file_type, name, parent, ord, opened) ==
    LET base == IF parent = None THEN root ELSE parent[1]
        target == (IF file_type = "Dir" THEN PopFiles(d, base) ELSE base) \o <<name>>
    IN IF exists(d, target) THEN Refused(d, cache, FileExists(target))
       ELSE IF ~ParentOk(d, target) THEN Refused(d, cache, FileCreate(target))
       ELSE refreshed(Put(d, target, IF file_type = "Dir" THEN DirNode ELSE Template(name)),
                      cache, ord,
                      IF file_type = "File" /\ ~opened THEN Err(FileIo(target))
                      ELSE Ok(NoOutput))

\* fs::remove_dir_all removes the entries of a directory one by one, depth
\* first, and the directory last; it stops at the first entry that cannot
\* be removed and leaves what it removed before it removed. stuck is that
\* entry, if the site has one
Removal(d, ok) == [disk |-> d, ok |-> ok]

RECURSIVE remove_dir_all(_, _, _, _)
RECURSIVE remove_entries(_, _, _, _, _)

remove_emptied(r, dir, stuck) ==
    IF ~r.ok \/ stuck = Some(dir) THEN Removal(r.disk, FALSE)
    ELSE Removal(RemoveTree(r.disk, dir), TRUE)

remove_next(r, dir, names, ord, stuck) ==
    IF ~r.ok THEN r ELSE remove_entries(r.disk, dir, names, ord, stuck)

remove_entries(d, dir, names, ord, stuck) ==
    IF names = <<>> THEN Removal(d, TRUE)
    ELSE IF is_dir(d, dir \o <<Head(names)>>)
    THEN remove_next(remove_dir_all(d, dir \o <<Head(names)>>, ord, stuck),
                     dir, Tail(names), ord, stuck)
    ELSE IF stuck = Some(dir \o <<Head(names)>>) THEN Removal(d, FALSE)
    ELSE remove_entries(RemoveTree(d, dir \o <<Head(names)>>), dir, Tail(names),
                        ord, stuck)

remove_dir_all(d, dir, ord, stuck) ==
    remove_emptied(remove_entries(d, dir, read_dir(d, dir, ord), ord, stuck),
                   dir, stuck)

\* fs::remove_file removes the file or changes nothing
remove_file(d, path, stuck) ==
    IF ~exists(d, path) \/ stuck = Some(path) THEN Removal(d, FALSE)
    ELSE Removal(RemoveTree(d, path), TRUE)

\* The rest of delete_page once the removal r has come back: `?` returns
\* the error, and only a removal that succeeded reaches the refresh
delete_page_removed(d, cache, path, r, ord) ==
    IF ~r.ok THEN Refused(r.disk, cache, FileIo(path))
    ELSE refreshed(r.disk, cache, ord, Ok(NoOutput))

\* delete_page: remove_dir_all or remove_file, then refresh
delete_page(d, cache, path, ord, stuck) ==
    delete_page_removed(d, cache, path,
                        IF is_dir(d, path) THEN remove_dir_all(d, path, ord, stuck)
                        ELSE remove_file(d, path, stuck),
                        ord)

\* fs::rename succeeds when the source exists and the destination is free,
\* is the source itself, is a file replaced by a file, or is an empty
\* directory replaced by a directory
CanRename(d, from, to) ==
    /\ exists(d, from)
    /\ \/ ~exists(d, to)
       \/ from = to
       \/ is_file(d, from) /\ is_file(d, to)
       \/ is_dir(d, from) /\ is_dir(d, to) /\ Below(d, to) = {}

\* The disk after fs::rename(from, to)
Renamed(d, from, to) ==
    IF from = to THEN d
    ELSE LET kept == {q \in DOMAIN d : ~IsPrefix(from, q) /\ ~IsPrefix(to, q)}
             moved == {q \in DOMAIN d : IsPrefix(from, q)}
             dest(q) == to \o SubSeq(q, Len(from) + 1, Len(q))
         IN [q \in kept \cup {dest(m) : m \in moved} |->
                IF q \in kept THEN d[q]
                ELSE d[CHOOSE m \in moved : dest(m) = q]]

\* rename_page: set_file_name on the path, fs::rename, then refresh
rename_page(d, cache, target, new_name, ord) ==
    LET new_path == SubSeq(target, 1, Len(target) - 1) \o <<new_name>>
    IN IF ~CanRename(d, target, new_path) THEN Refused(d, cache, FileIo(target))
       ELSE refreshed(Renamed(d, target, new_path), cache, ord, Ok(NoOutput))

\* paste_image: hasImage says whether the clipboard holds an image, fname is
\* the name unique_image_name settled on, saved whether the image was written
paste_image(d, cache, hasImage, fname, saved, ord) ==
    IF ~hasImage THEN Refused(d, cache, NoClipboardImage)
    ELSE IF ~is_dir(d, root \o <<nImages>>) THEN Refused(d, cache, NoImageDir)
    ELSE IF ~saved THEN Refused(d, cache, FileCreate(root \o <<nImages, fname>>))
    ELSE refreshed(Put(d, root \o <<nImages, fname>>, FileNode(<<"png">>, NoFm)),
                   cache, ord, Ok(NoOutput))

----------------------------------------------------------------------------
(* server.rs: the preview server's request handler *)

\* Response::builder() without .status(): the default status of a response
StatusDefault == 200

\* A path as the text Display prints: its components separated by "/"
RECURSIVE PathText(_)
PathText(segs) ==
    IF segs = <<>> THEN <<>>
    ELSE <<"/">> \o Head(segs) \o PathText(Tail(segs))

\* format!("{}", e) for a RenderError
ErrorText(e) == <<"Error", e.kind>> \o PathText(e.path.segs)

\* The default document served for "/" (renderer::default_path)
default_path(rt) == Rel(<<nHtml>>)

\* The resolver the handler calls (renderer::render): the preview rules,
\* applied to the path as the handler hands it over
render(d, path, rt) == server_render(d, path, rt)

\* FleenServer::call: uri is the request path's components, <<>> for "/"
call(d, uri, rt) ==
    LET path == IF uri = <<>> THEN default_path(rt) ELSE Abs(uri)
        res == render(d, path, rt)
    IN [status |-> StatusDefault,
        body |-> IF res.ok THEN <<"banana">> ELSE ErrorText(res.err)]

----------------------------------------------------------------------------
(* fleen_app.rs: the deploy pipeline *)

deploy_script_path(rt) == rt \o <<nScripts, nDeploy>>

\* tempfile::tempdir(): a fresh directory for the i-th job
ScratchDir(i) == <<nTmp, <<"s", ToString(i)>>>>

\* One run of the deploy script: it cannot be spawned, exits 0 or exits 1
SpawnFailure == [spawned |-> FALSE, code |-> 0, stdout |-> <<"No such file">>]
Executions ==
    {SpawnFailure,
     [spawned |-> TRUE, code |-> 0, stdout |-> <<"deployed">>],
     [spawned |-> TRUE, code |-> 1, stdout |-> <<"failed">>]}

NoResult == [kind |-> "none", text |-> <<>>, err |-> NoErr]
JobOk(text) == [kind |-> "Ok", text |-> text, err |-> NoErr]
JobErr(e) == [kind |-> "Err", text |-> <<>>, err |-> e]
\* unwrap() on an Err unwinds the task; the JoinHandle yields a JoinError
JobPanic == [kind |-> "Panic", text |-> <<>>, err |-> NoErr]

\* Drop for TempDir and TempDir::close: remove the directory and its contents
\* unless the removal fails
remove_scratch(d, scratch, removed) ==
    IF removed THEN RemoveTree(d, scratch) ELSE d

NewJob(scratch) ==
    [scratch |-> scratch, pc |-> "returned", created |-> FALSE,
     build |-> NoErr, built |-> FALSE, script |-> FALSE, spawned |-> FALSE,
     ret |-> NoErr, runs |-> 0, output |-> SpawnFailure, status |-> SpawnFailure,
     removeFailed |-> FALSE, result |-> NoResult]

\* The job record once the build has returned b
Built(scratch, b) ==
    [NewJob(scratch) EXCEPT !.created = TRUE, !.built = b.ok, !.build = b.err]

\* A slip: the task is spawned without looking for the deploy script
deploy_built_unchecked(b, rt, scratch, removed) ==
    IF ~b.ok
    THEN [disk |-> remove_scratch(b.disk, scratch, removed),
          job |-> [Built(scratch, b) EXCEPT !.ret = b.err, !.removeFailed = ~removed]]
    ELSE [disk |-> b.disk,
          job |-> [Built(scratch, b) EXCEPT !.script = TRUE, !.spawned = TRUE,
                                            !.pc = "output"]]

\* build_and_deploy after build_site has returned b: the ? on the build, the
\* script check, then the spawn; an early return drops the TempDir
deploy_built(b, rt, scratch, removed) ==
    IF ~b.ok
    THEN [disk |-> remove_scratch(b.disk, scratch, removed),
          job |-> [Built(scratch, b) EXCEPT !.ret = b.err, !.removeFailed = ~removed]]
    ELSE IF ~exists(b.disk, deploy_script_path(rt))
    THEN [disk |-> remove_scratch(b.disk, scratch, removed),
          job |-> [Built(scratch, b) EXCEPT !.ret = ScriptMissing,
                                            !.removeFailed = ~removed]]
    ELSE [disk |-> b.disk,
          job |-> [Built(scratch, b) EXCEPT !.script = TRUE, !.spawned = TRUE,
                                            !.pc = "output"]]

\* build_and_deploy up to its return: tempOk says whether tempdir() succeeds,
\* removed whether dropping the TempDir removes it
build_and_deploy(d, rt, scratch, tempOk, removed, ord) ==
    IF ~tempOk THEN [disk |-> d, job |-> [NewJob(scratch) EXCEPT !.ret = TargetDir]]
    ELSE deploy_built(build_site(Put(d, scratch, DirNode), rt, scratch, ord),
                      rt, scratch, removed)

\* The task of build_and_deploy_inner, first statement: command.output()
task_output(job, run) ==
    [job EXCEPT !.output = run, !.pc = "status",
                !.runs = @ + (IF run.spawned THEN 1 ELSE 0)]

\* Second statement: command.status().unwrap()
task_status(d, job, run, removed) ==
    IF ~run.spawned
    THEN [disk |-> remove_scratch(d, job.scratch, removed),
          job |-> [job EXCEPT !.pc = "done", !.result = JobPanic,
                              !.removeFailed = ~removed]]
    ELSE [disk |-> d,
          job |-> [job EXCEPT !.status = run, !.pc = "close", !.runs = @ + 1]]

\* The match on output that ends the task
deploy_result(output, status) ==
    IF output.spawned
    THEN IF status.code = 0 THEN JobOk(output.stdout)
         ELSE JobErr(DeployError(output.stdout))
    ELSE JobErr(DeployError(output.stdout))

\* A slip: a failed deploy returns before the scratch directory is closed
task_close_on_success(d, job, removed) ==
    LET result == deploy_result(job.output, job.status)
    IN IF result.kind = "Err"
       THEN [disk |-> d, job |-> [job EXCEPT !.pc = "done", !.result = result]]
       ELSE IF ~removed
       THEN [disk |-> d,
             job |-> [job EXCEPT !.pc = "done", !.removeFailed = TRUE,
                                 !.result = JobErr(Io(Abs(job.scratch)))]]
       ELSE [disk |-> remove_scratch(d, job.scratch, TRUE),
             job |-> [job EXCEPT !.pc = "done", !.result = result]]

\* Third statement and the rest: output_dir.close()? and the result
task_close(d, job, removed) ==
    IF ~removed
    THEN [disk |-> d,
          job |-> [job EXCEPT !.pc = "done", !.removeFailed = TRUE,
                              !.result = JobErr(Io(Abs(job.scratch)))]]
    ELSE [disk |-> remove_scratch(d, job.scratch, TRUE),
          job |-> [job EXCEPT !.pc = "done",
                              !.result = deploy_result(job.output, job.status)]]

----------------------------------------------------------------------------
(* site_ui.rs: the deploy button, its background task and the result slot *)

\* The task spawned by a click, before it has run
SpawnedTask == [pc |-> "spawned", job |-> 0]

\* SiteUi::from: nothing deploying, the result slot empty, no dialog
NewUi ==
    [deploying |-> FALSE, deploy_response |-> None, error |-> None,
     message |-> None, tasks |-> <<>>, repaint |-> FALSE]

\* A slip: the poll reads the result and leaves it in the slot
check_deploy_status_peek(u) ==
    IF ~u.deploying THEN [u EXCEPT !.repaint = FALSE]
    ELSE IF u.deploy_response = None THEN [u EXCEPT !.repaint = TRUE]
    ELSE [u EXCEPT !.error = IF u.deploy_response[1].kind = "Err"
                             THEN Some(u.deploy_response[1].err) ELSE @,
                   !.message = IF u.deploy_response[1].kind = "Ok"
                               THEN Some(u.deploy_response[1].text) ELSE @,
                   !.deploying = FALSE,
                   !.repaint = TRUE]

\* SiteUi::check_deploy_status: while deploying, take the result out of the
\* slot if there is one, and ask for another frame
check_deploy_status(u) ==
    IF ~u.deploying THEN [u EXCEPT !.repaint = FALSE]
    ELSE IF u.deploy_response = None THEN [u EXCEPT !.repaint = TRUE]
    ELSE [u EXCEPT !.deploy_response = None,
                   !.error = IF u.deploy_response[1].kind = "Err"
                             THEN Some(u.deploy_response[1].err) ELSE @,
                   !.message = IF u.deploy_response[1].kind = "Ok"
                               THEN Some(u.deploy_response[1].text) ELSE @,
                   !.deploying = FALSE,
                   !.repaint = TRUE]

\* SiteUi::error_dialog and SiteUi::message_dialog: the button of an open
\* dialog closes it
error_dialog(u, dismissed) ==
    IF u.error # None /\ dismissed THEN [u EXCEPT !.error = None] ELSE u

message_dialog(u, dismissed) ==
    IF u.message # None /\ dismissed THEN [u EXCEPT !.message = None] ELSE u

\* A slip: the site is built, and the deploy begun, inside the frame
SiteUi_build_and_deploy_inline(w) ==
    [disk |-> build_and_deploy(w.disk, root, ScratchDir(Len(w.jobs) + 1),
                               TRUE, TRUE, "forward").disk,
     jobs |-> Append(w.jobs,
                     build_and_deploy(w.disk, root, ScratchDir(Len(w.jobs) + 1),
                                      TRUE, TRUE, "forward").job),
     ui |-> [w.ui EXCEPT !.deploying = TRUE,
                         !.tasks = Append(@, [pc |-> "awaiting", job |-> Len(w.jobs) + 1])]]

\* SiteUi::build_and_deploy: raise the flag and spawn the task; w holds the
\* disk, the deploy jobs and the window's state
SiteUi_build_and_deploy(w) ==
    [w EXCEPT !.ui.deploying = TRUE, !.ui.tasks = Append(@, SpawnedTask)]

\* A slip: the deploy button is enabled whatever the flag says
deploy_button_enabled(w, clicked) ==
    IF clicked THEN SiteUi_build_and_deploy(w) ELSE w

\* The "Build and Deploy" button, enabled while nothing is deploying
deploy_button(w, clicked) ==
    IF clicked /\ ~w.ui.deploying THEN SiteUi_build_and_deploy(w) ELSE w

\* The outcome b of build_site shown in a dialog
built_dialog(w, b) ==
    [w EXCEPT !.disk = b.disk,
              !.ui.message = IF b.ok THEN Some(<<"Site built successfully">>) ELSE @,
              !.ui.error = IF b.ok THEN @ ELSE Some(b.err)]

\* The "Build site..." button: the site is built into the folder picked
build_button(w, clicked, path, ord) ==
    IF clicked THEN built_dialog(w, build_site(w.disk, root, path, ord)) ELSE w

\* SiteUi::display, one frame: poll the slot, show the dialogs, then the two
\* buttons; click names the button pressed in this frame, pick the folder
\* chosen for "Build site..." and the order its build enumerates in
display(w, click, pick) ==
    build_button(
        deploy_button(
            [w EXCEPT !.ui = message_dialog(error_dialog(check_deploy_status(w.ui),
                                                         click = "I see"),
                                            click = "Thanks!")],
            click = "deploy"),
        click = "build", pick.path, pick.ord)

\* What the spawned task gets from site.build_and_deploy().await: the error
\* the call returned or the result of the deploy job
awaited(job) == IF job.pc = "returned" THEN JobErr(job.ret) ELSE job.result

\* The end of the spawned task: the result goes into the slot; a panic of
\* the deploy job unwinds the task before it gets there
task_store(u, t, result) ==
    IF result.kind = "Panic" THEN [u EXCEPT !.tasks[t].pc = "panicked"]
    ELSE [u EXCEPT !.deploy_response = Some(result), !.tasks[t].pc = "finished"]

----------------------------------------------------------------------------
(* Initial states: a site opened on a source tree (FleenApp::open) *)

Fm(hasLayout, title, published) ==
    [present |-> TRUE, valid |-> TRUE, hasLayout |-> hasLayout,
     layout |-> IF hasLayout THEN Rel(<<nLayouts, nPost>>) ELSE Rel(<<>>),
     title |-> title, published |-> published]

\* Markdown sources: without front-matter, published, unpublished, with a
\* layout and a title, unpublished with a layout, with a layout and a title
\* that quotes a placeholder, and with front-matter that is not valid TOML
MdPlain(body) == FileNode(body, NoFm)
MdPublished(body) == FileNode(body, Fm(FALSE, <<>>, "true"))
MdHidden(body) == FileNode(body, Fm(FALSE, <<>>, "false"))
MdLayout(body) == FileNode(body, Fm(TRUE, <<"Pest Toast">>, "none"))
MdHiddenLayout(body) == FileNode(body, Fm(TRUE, <<"Draft">>, "false"))
\* A title that itself holds the text "$content"
MdQuotingTitle(body) == FileNode(body, Fm(TRUE, <<"How to use ", "$content">>, "none"))
MdBroken(body) == FileNode(body, [NoFm EXCEPT !.present = TRUE, !.valid = FALSE])

Entry(path, node) == [path |-> path, node |-> node]

\* The entries a source tree is drawn from, by path relative to the root
Candidates ==
    {Entry(<<nMd>>, n) : n \in {MdPlain(<<"index">>), MdPublished(<<"index">>),
                                 MdHidden(<<"index">>), MdLayout(<<"index">>),
                                 MdHiddenLayout(<<"index">>), MdQuotingTitle(<<"index">>),
                                 MdBroken(<<"index">>)}}
    \cup {Entry(<<nDir, nMd>>, n) : n \in {MdPlain(<<"inner">>), MdBroken(<<"inner">>)}}
    \cup {Entry(<<nHtml>>, FileNode(<<"raw html">>, NoFm)),
          Entry(<<nHtml>>, DirNode),
          Entry(<<nTxt>>, FileNode(<<"raw text">>, NoFm)),
          Entry(<<nSkipMd>>, MdBroken(<<"draft">>)),
          Entry(<<nDir>>, DirNode),
          Entry(<<nDir, nSub>>, DirNode),
          Entry(<<nDir, nSub, nMd>>, MdPlain(<<"deep">>)),
          Entry(<<nLayouts>>, DirNode),
          Entry(<<nLayouts, nPost>>, FileNode(<<"<!DOCTYPE html>", "$title", "$content">>, NoFm)),
          Entry(<<nScripts>>, DirNode),
          Entry(<<nScripts, nDeploy>>, FileNode(<<"#!/bin/sh">>, NoFm))}

\* An entry can join a tree that lacks its path and holds its parent directory
Addable(T, e) ==
    /\ \A f \in T : f.path # e.path
    /\ \/ Len(e.path) = 1
       \/ \E f \in T : f.path = SubSeq(e.path, 1, Len(e.path) - 1) /\ f.node.kind = "dir"

RECURSIVE Trees(_)
Trees(k) ==
    IF k = 0 THEN {{}}
    ELSE LET smaller == Trees(k - 1)
         IN smaller \cup UNION {{T \cup {e} : e \in {c \in Candidates : Addable(T, c)}} :
                                 T \in smaller}

\* What the disk holds apart from the source tree: the root itself, a file
\* next to it, the temporary directory and a build target with the remains
\* of an earlier build
BaseDisk ==
    (<<>> :> DirNode) @@ (<<nHome>> :> DirNode) @@ (root :> DirNode)
    @@ (<<nTmp>> :> DirNode) @@ (<<nOut>> :> DirNode)
    @@ (<<nOut, nOld>> :> FileNode(<<"stale">>, NoFm))
    @@ (<<nOut, nUnder>> :> DirNode)
    @@ (<<nHome, nTxt>> :> FileNode(<<"outside">>, NoFm))

DiskOf(T) ==
    [q \in DOMAIN BaseDisk \cup {root \o e.path : e \in T} |->
        IF q \in DOMAIN BaseDisk THEN BaseDisk[q]
        ELSE (CHOOSE e \in T : root \o e.path = q).node]

\* build_site targets: the filesystem root, the root's parent, the root, a
\* directory inside the root, a directory elsewhere and a missing one
Targets == {<<>>, <<nHome>>, root, root \o <<nDir>>, <<nOut>>, <<nNowhere>>}

\* A target that names a directory inside the root by way of "..": the
\* text of the path is neither above nor below the text of the root
IndirectTargets == {<<nTmp, nDotDot>> \o root \o <<nDir>>}

\* Paths handed to the two resolvers
Sources ==
    {Rel(e.path) : e \in Candidates}
    \cup {Rel(<<>>), Rel(<<nMissing>>), Rel(<<nDir, nHtml>>), Rel(<<nDir, nSub, nHtml>>),
          Rel(<<nDotDot, nTxt>>), Rel(<<nDir, nDotDot, nHtml>>),
          Rel(<<nSkipHtml>>), Rel(<<nLayouts, nMd>>)}

\* Request paths of the preview server, <<>> for "/"
Uris == {<<>>, <<nHtml>>, <<nMd>>, <<nTxt>>, <<nDir>>, <<nDir, nHtml>>,
         <<nSkipMd>>, <<nMissing>>, <<nHome, nTxt>>, <<nHome, nSite, nMd>>,
         <<nHome, nSite, nDir, nHtml>>}

NoResponse == [status |-> 0, body |-> <<>>]

Returned(op, arg, res, acts, resp) ==
    [op |-> op, arg |-> arg, res |-> res, acts |-> acts, resp |-> resp]

\* The site handle and the window right after the site was opened
Opened ==
    /\ ret = Returned("none", NoPath, Ok(NoOutput), <<>>, NoResponse)
    /\ jobs = <<>>
    /\ calls = 0
    /\ ui = NewUi
    /\ files_cache = None

Init ==
    /\ disk \in {DiskOf(T) : T \in Trees(MaxEntries)}
    /\ Opened

\* The sites the window is opened on: with or without a deploy script, with
\* a page that renders or one that does not
WindowTrees ==
    {T \in Trees(MaxEntries) :
        \A e \in T : \/ e.path \in {<<nScripts>>, <<nScripts, nDeploy>>}
                     \/ e = Entry(<<nMd>>, MdPlain(<<"index">>))
                     \/ e = Entry(<<nMd>>, MdBroken(<<"index">>))}

InitWindow ==
    /\ disk \in {DiskOf(T) : T \in WindowTrees}
    /\ Opened

\* The entries of the sites whose tree is listed and edited: a page, the
\* image directory with its dot file and an image, a private directory with
\* a layout, and a dot directory
TreeCandidates ==
    {Entry(<<nMd>>, MdPlain(<<"index">>)),
     Entry(<<nImages>>, DirNode),
     Entry(<<nImages, nKeep>>, FileNode(<<>>, NoFm)),
     Entry(<<nImages, ImageName(1)>>, FileNode(<<"png">>, NoFm)),
     Entry(<<nLayouts>>, DirNode),
     Entry(<<nLayouts, nPost>>, FileNode(<<"<!DOCTYPE html>", "$title", "$content">>, NoFm)),
     Entry(<<nGit>>, DirNode)}

RECURSIVE TreesOf(_, _)
TreesOf(C, k) ==
    IF k = 0 THEN {{}}
    ELSE LET smaller == TreesOf(C, k - 1)
         IN smaller \cup UNION {{T \cup {e} : e \in {c \in C : Addable(T, c)}} :
                                 T \in smaller}

InitTree ==
    /\ disk \in {DiskOf(T) : T \in TreesOf(TreeCandidates, MaxEntries)}
    /\ Opened

\* Arguments of the editing calls
FileTypes == {"File", "Dir"}
NewNames == {nNew, nDraft, nUnder}
Parents == {None, Some(root \o <<nImages>>), Some(root \o <<nMd>>)}
DeletePaths == {root \o <<nMd>>, root \o <<nImages>>, root \o <<nMissing>>, root}
Stuck == {None, Some(root \o <<nImages, nKeep>>)}
RenamePaths == {root \o <<nMd>>, root \o <<nLayouts>>, root \o <<nImages, nKeep>>}
RenameNames == {nNew, nDraft, nImages}
ImageNames == {ImageName(i) : i \in 1..MaxEdits}

\* The button pressed in a frame, if any
Clicks == {"none", "deploy", "build", "I see", "Thanks!"}

\* The folder picked for "Build site...", with the order its build
\* enumerates directories in
NoPick == [path |-> <<>>, ord |-> "forward"]
Picks(click) ==
    IF click = "build" THEN [path : {<<nOut>>}, ord : Orders] ELSE {NoPick}

----------------------------------------------------------------------------
(* Actions *)

FileRender(source) ==
    /\ calls < MaxResolves
    /\ calls' = calls + 1
    /\ ret' = Returned("file_render", source, file_render(disk, source, root),
                       <<>>, NoResponse)
    /\ UNCHANGED <<disk, jobs, ui, files_cache>>

ServerRender(source) ==
    /\ calls < MaxResolves
    /\ calls' = calls + 1
    /\ ret' = Returned("server_render", source, server_render(disk, source, root),
                       <<>>, NoResponse)
    /\ UNCHANGED <<disk, jobs, ui, files_cache>>

Compile(ord) ==
    /\ calls < MaxBuilds
    /\ calls' = calls + 1
    /\ \E r \in {compile(disk, root, ord)} :
          ret' = Returned("compile", NoPath,
                          IF r.ok THEN Ok(NoOutput) ELSE Err(r.err), r.acts, NoResponse)
    /\ UNCHANGED <<disk, jobs, ui, files_cache>>

BuildSite(target, ord) ==
    /\ calls < MaxBuilds
    /\ calls' = calls + 1
    /\ \E r \in {build_site(disk, root, target, ord)} :
          /\ disk' = r.disk
          /\ ret' = Returned("build_site", Abs(target),
                             IF r.ok THEN Ok(NoOutput) ELSE Err(r.err), <<>>, NoResponse)
    /\ UNCHANGED <<jobs, ui, files_cache>>

Call(uri) ==
    /\ calls < MaxResolves
    /\ calls' = calls + 1
    /\ ret' = Returned("call", Abs(uri),
                       render(disk, IF uri = <<>> THEN default_path(root) ELSE Abs(uri), root),
                       <<>>, call(disk, uri, root))
    /\ UNCHANGED <<disk, jobs, ui, files_cache>>

BuildAndDeploy(tempOk, removed, ord) ==
    /\ Len(jobs) < MaxJobs
    /\ \E r \in {build_and_deploy(disk, root, ScratchDir(Len(jobs) + 1),
                                  tempOk, removed, ord)} :
          /\ disk' = r.disk
          /\ jobs' = Append(jobs, r.job)
    /\ UNCHANGED <<ret, calls, ui, files_cache>>

TaskOutput(i, run) ==
    /\ jobs[i].pc = "output"
    /\ jobs' = [jobs EXCEPT ![i] = task_output(jobs[i], run)]
    /\ UNCHANGED <<disk, ret, calls, ui, files_cache>>

TaskStatus(i, run, removed) ==
    /\ jobs[i].pc = "status"
    /\ LET r == task_status(disk, jobs[i], run, removed)
       IN /\ disk' = r.disk
          /\ jobs' = [jobs EXCEPT ![i] = r.job]
    /\ UNCHANGED <<ret, calls, ui, files_cache>>

TaskClose(i, removed) ==
    /\ jobs[i].pc = "close"
    /\ LET r == task_close(disk, jobs[i], removed)
       IN /\ disk' = r.disk
          /\ jobs' = [jobs EXCEPT ![i] = r.job]
    /\ UNCHANGED <<ret, calls, ui, files_cache>>

\* One frame of the window
Display(click, pick) ==
    /\ click = "deploy" => Len(ui.tasks) < MaxDeploys
    /\ \E w \in {display([disk |-> disk, jobs |-> jobs, ui |-> ui], click, pick)} :
          /\ disk' = w.disk
          /\ jobs' = w.jobs
          /\ ui' = w.ui
    /\ UNCHANGED <<ret, calls, files_cache>>

\* The spawned task calls site.build_and_deploy()
UiTaskRun(t, tempOk, removed, ord) ==
    /\ ui.tasks[t].pc = "spawned"
    /\ \E r \in {build_and_deploy(disk, root, ScratchDir(Len(jobs) + 1),
                                  tempOk, removed, ord)} :
          /\ disk' = r.disk
          /\ jobs' = Append(jobs, r.job)
    /\ ui' = [ui EXCEPT !.tasks[t] = [pc |-> "awaiting", job |-> Len(jobs) + 1]]
    /\ UNCHANGED <<ret, calls, files_cache>>

\* The call has come back: the task locks the slot and stores the result
UiTaskStore(t) ==
    /\ ui.tasks[t].pc = "awaiting"
    /\ jobs[ui.tasks[t].job].pc \in {"returned", "done"}
    /\ ui' = task_store(ui, t, awaited(jobs[ui.tasks[t].job]))
    /\ UNCHANGED <<disk, jobs, ret, calls, files_cache>>

\* file_tree_entries: refresh_file_cache(false), then a clone of the cache
FileTreeEntries(ord) ==
    /\ ret.op # "panic"
    /\ \E r \in {refresh_file_cache(disk, files_cache, FALSE, ord)} :
          /\ files_cache' = r.cache
          /\ ret' = IF r.panicked
                    THEN Returned("panic", NoPath, Ok(NoOutput), <<>>, NoResponse)
                    ELSE Returned("file_tree_entries", NoPath, Ok(NoOutput),
                                  r.cache[1], NoResponse)
    /\ UNCHANGED <<disk, jobs, calls, ui>>

\* The site handle can take another editing call
CanEdit == ret.op # "panic" /\ calls < MaxEdits

\* An editing call has left e behind; a panic inside it ends the program
EditReturns(op, arg, e) ==
    /\ calls' = calls + 1
    /\ disk' = e.disk
    /\ files_cache' = e.cache
    /\ ret' = IF e.panicked
              THEN Returned("panic", Abs(arg), Ok(NoOutput), <<>>, NoResponse)
              ELSE Returned(op, Abs(arg), e.res, <<>>, NoResponse)
    /\ UNCHANGED <<jobs, ui>>

CreatePage(file_type, name, parent, ord, opened) ==
    /\ CanEdit
    /\ \E e \in {create_page(disk, files_cache, file_type, name, parent, ord, opened)} :
        EditReturns("create_page", <<name>>, e)

DeletePage(path, ord, stuck) ==
    /\ CanEdit
    /\ \E e \in {delete_page(disk, files_cache, path, ord, stuck)} :
        EditReturns("delete_page", path, e)

RenamePage(target, new_name, ord) ==
    /\ CanEdit
    /\ \E e \in {rename_page(disk, files_cache, target, new_name, ord)} :
        EditReturns("rename_page", target, e)

PasteImage(hasImage, fname, saved, ord) ==
    /\ CanEdit
    /\ ~exists(disk, root \o <<nImages, fname>>)
    /\ \E e \in {paste_image(disk, files_cache, hasImage, fname, saved, ord)} :
          EditReturns("paste_image", <<nImages, fname>>, e)

\* Compiling the site and building it into a target directory
Next ==
    \/ \E ord \in Orders : Compile(ord)
    \/ \E target \in Targets, ord \in Orders : BuildSite(target, ord)

Spec == Init /\ [][Next]_vars

\* Everything that builds: compile, build_site into any target, and the
\* deploy pipeline with the steps of its task
NextBuild ==
    \/ \E ord \in Orders : Compile(ord)
    \/ \E target \in Targets \cup IndirectTargets, ord \in Orders :
          BuildSite(target, ord)
    \/ \E tempOk \in BOOLEAN, removed \in BOOLEAN, ord \in Orders :
          BuildAndDeploy(tempOk, removed, ord)
    \/ \E i \in DOMAIN jobs, run \in Executions : TaskOutput(i, run)
    \/ \E i \in DOMAIN jobs, run \in Executions, removed \in BOOLEAN :
          TaskStatus(i, run, removed)
    \/ \E i \in DOMAIN jobs, removed \in BOOLEAN : TaskClose(i, removed)

SpecBuild == Init /\ [][NextBuild]_vars

\* The two resolvers and the preview server, one path at a time
NextRender ==
    \/ \E source \in Sources : FileRender(source)
    \/ \E source \in Sources : ServerRender(source)
    \/ \E uri \in Uris : Call(uri)

SpecRender == Init /\ [][NextRender]_vars

\* The deploy pipeline: the call and the steps of its background task
NextDeploy ==
    \/ \E tempOk \in BOOLEAN, removed \in BOOLEAN, ord \in Orders :
          BuildAndDeploy(tempOk, removed, ord)
    \/ \E i \in DOMAIN jobs, run \in Executions : TaskOutput(i, run)
    \/ \E i \in DOMAIN jobs, run \in Executions, removed \in BOOLEAN :
          TaskStatus(i, run, removed)
    \/ \E i \in DOMAIN jobs, removed \in BOOLEAN : TaskClose(i, removed)

SpecDeploy == Init /\ [][NextDeploy]_vars

\* The window: frames, and the steps of the task a deploy click spawns
NextWindow ==
    \/ \E click \in Clicks : \E pick \in Picks(click) : Display(click, pick)
    \/ \E t \in DOMAIN ui.tasks, tempOk \in BOOLEAN, removed \in BOOLEAN, ord \in Orders :
          UiTaskRun(t, tempOk, removed, ord)
    \/ \E t \in DOMAIN ui.tasks : UiTaskStore(t)
    \/ \E i \in DOMAIN jobs, run \in Executions : TaskOutput(i, run)
    \/ \E i \in DOMAIN jobs, run \in Executions, removed \in BOOLEAN :
          TaskStatus(i, run, removed)
    \/ \E i \in DOMAIN jobs, removed \in BOOLEAN : TaskClose(i, removed)

SpecWindow == InitWindow /\ [][NextWindow]_vars

\* The tree cache: listing the site between calls that edit it
NextTree ==
    \/ \E ord \in Orders : FileTreeEntries(ord)
    \/ \E file_type \in FileTypes, name \in NewNames, parent \in Parents,
          ord \in Orders, opened \in BOOLEAN :
          CreatePage(file_type, name, parent, ord, opened)
    \/ \E path \in DeletePaths, ord \in Orders, stuck \in Stuck :
          DeletePage(path, ord, stuck)
    \/ \E target \in RenamePaths, new_name \in RenameNames, ord \in Orders :
          RenamePage(target, new_name, ord)
    \/ \E hasImage \in BOOLEAN, fname \in ImageNames, saved \in BOOLEAN, ord \in Orders :
          PasteImage(hasImage, fname, saved, ord)

SpecTree == InitTree /\ [][NextTree]_vars

----------------------------------------------------------------------------
(* Properties *)

\* A path component is private: it is ".." or it starts with "_"
PrivateName(name) == name = <<".", ".">> \/ (name # <<>> /\ name[1] = "_")

HasPrivateName(segs) == \E i \in 1..Len(segs) : PrivateName(segs[i])

\* C1: for every relative path with a component equal to ".." or starting
\* with "_", file_render and server_render both return NoOutput, whatever
\* the extension, whether or not the path or its .md sibling exists, and
\* also when the path is a directory.
C1_SkippedPathNoOutput ==
    (ret.op \in {"file_render", "server_render"} /\ HasPrivateName(ret.arg.segs))
        => ret.res = Ok(NoOutput)

\* A private directory that exists, and a file in it, were resolved
C1_Witness ==
    /\ ret.op \in {"file_render", "server_render"}
    /\ ret.arg = Rel(<<nLayouts, nPost>>)
    /\ is_dir(disk, root \o <<nLayouts>>)
    /\ is_file(disk, root \o <<nLayouts, nPost>>)
    /\ ret.res = Ok(NoOutput)

\* The path of q relative to the directory base
Relative(base, q) == SubSeq(q, Len(base) + 1, Len(q))

\* A file name with the given extension after a non-empty stem
HasExtension(name, ext) ==
    Len(name) >= 3 /\ name[Len(name) - 1] = "." /\ name[Len(name)] = ext

\* The same path with the last token of its file name replaced
Sibling(segs, ext) ==
    [segs EXCEPT ![Len(segs)] = [segs[Len(segs)] EXCEPT ![Len(segs[Len(segs)])] = ext]]

\* The target of a build_site call is neither the root, nor above, nor below it
Apart(target) == ~IsPrefix(target, root) /\ ~IsPrefix(root, target)

C4_DirBeforeContents ==
    (ret.op = "compile" /\ ret.res.ok) =>
        \A i, j \in 1..Len(ret.acts) :
            (/\ ret.acts[i].kind = "Dir"
             /\ ret.acts[j].kind \in {"Dir", "RawFile", "Rendered", "Hidden"}
             /\ Len(ret.acts[j].path.segs) > Len(ret.acts[i].path.segs)
             /\ IsPrefix(ret.acts[i].path.segs, ret.acts[j].path.segs))
            => i < j

\* A compiled tree with a rendered page two directories deep
C4_Witness ==
    /\ ret.op = "compile"
    /\ ret.res.ok
    /\ \E i, j, k \in 1..Len(ret.acts) :
          /\ ret.acts[i] = Dir(Rel(<<nDir>>))
          /\ ret.acts[j] = Dir(Rel(<<nDir, nSub>>))
          /\ ret.acts[k].kind = "Rendered"
          /\ ret.acts[k].path = Rel(<<nDir, nSub, nHtml>>)
          /\ i < j /\ j < k

\* The Markdown sources below the root that no private name hides
MarkdownSources(d) ==
    {q \in Below(d, root) :
        /\ d[q].kind = "file"
        /\ HasExtension(q[Len(q)], "md")
        /\ ~HasPrivateName(Relative(root, q))}

Unpublished(node) == node.fm.present /\ node.fm.valid /\ node.fm.published = "false"

\* The Markdown sources whose rendering fails
FailingSources(d) ==
    {q \in MarkdownSources(d) : ~render_as_markdown(d, Rel(Relative(root, q)), root).ok}

\* C5: if rendering a file under the root fails, build_site returns that
\* render error and applies no action: after the clean step nothing is
\* written to target.
C5_RenderErrorWritesNothing ==
    (/\ ret.op = "build_site"
     /\ Apart(ret.arg.segs)
     /\ is_dir(disk, ret.arg.segs)
     /\ FailingSources(disk) # {})
    => /\ \E q \in FailingSources(disk) :
             ret.res = Err(FromRenderError(
                           render_as_markdown(disk, Rel(Relative(root, q)), root).err))
       /\ Below(disk, ret.arg.segs) = {}

\* A build failed on a broken page although the root also holds a raw file
C5_Witness ==
    /\ ret.op = "build_site"
    /\ ret.arg = Abs(<<nOut>>)
    /\ ~ret.res.ok /\ ret.res.err.kind = "RenderError"
    /\ is_file(disk, root \o <<nTxt>>)
    /\ Below(disk, <<nOut>>) = {}

\* C6: after a successful build_site(target), every Markdown file p.md under
\* the root that is neither under a "_" path nor unpublished has a file
\* p.html in target, at the same relative path, holding the rendering of p.md.
C6_EveryPageBuilt ==
    (ret.op = "build_site" /\ ret.res.ok) =>
        \A q \in MarkdownSources(disk) :
            ~Unpublished(disk[q]) =>
                LET rel == Relative(root, q)
                    out == ret.arg.segs \o Sibling(rel, "html")
                IN /\ is_file(disk, out)
                   /\ disk[out].text = render_as_markdown(disk, Rel(rel), root).val.content

\* C7: after a successful build_site(target), target holds no entry with a
\* "_" name in its relative path and no output of an unpublished Markdown
\* source: Hidden and NoOutput write nothing.
C7_NothingPrivateBuilt ==
    (ret.op = "build_site" /\ ret.res.ok) =>
        /\ \A q \in Below(disk, ret.arg.segs) :
              ~HasPrivateName(Relative(ret.arg.segs, q))
        /\ \A q \in Below(disk, root) :
              (disk[q].kind = "file" /\ HasExtension(q[Len(q)], "md") /\ Unpublished(disk[q])) =>
                  LET rel == Sibling(Relative(root, q), "html")
                      out == ret.arg.segs \o rel
                  IN exists(disk, out) =>
                        (exists(disk, root \o rel) /\ disk[out] = disk[root \o rel])

\* A build succeeded on a root with an unpublished page and a private entry
C7_Witness ==
    /\ ret.op = "build_site"
    /\ ret.res.ok
    /\ ret.arg = Abs(<<nOut>>)
    /\ is_file(disk, root \o <<nMd>>) /\ Unpublished(disk[root \o <<nMd>>])
    /\ \E q \in Below(disk, root) : HasPrivateName(Relative(root, q))
    /\ Below(disk, <<nOut>>) # {}

\* C8: for a non-skipped .html path that does not exist while the same path
\* with .md exists as a file, server_render returns the rendering of that
\* .md file (Rendered or Hidden with the requested path), not NoOutput.
C8_HtmlFallsBackToMarkdown ==
    (/\ ret.op = "server_render"
     /\ ~ret.arg.abs
     /\ ret.arg.segs # <<>>
     /\ ~HasPrivateName(ret.arg.segs)
     /\ HasExtension(ret.arg.segs[Len(ret.arg.segs)], "html")
     /\ ~exists(disk, root \o ret.arg.segs)
     /\ is_file(disk, root \o Sibling(ret.arg.segs, "md")))
    => /\ ret.res = render_as_markdown(disk, Rel(Sibling(ret.arg.segs, "md")), root)
       /\ ret.res # Ok(NoOutput)
       /\ ret.res.ok => /\ ret.res.val.kind \in {"Rendered", "Hidden"}
                        /\ ret.res.val.path = ret.arg

\* index.html was asked for, only an unpublished index.md exists
C8_Witness ==
    /\ ret.op = "server_render"
    /\ ret.arg = Rel(<<nHtml>>)
    /\ ~exists(disk, root \o <<nHtml>>)
    /\ is_file(disk, root \o <<nMd>>)
    /\ ret.res.ok
    /\ ret.res.val.kind = "Hidden"
    /\ ret.res.val.path = Rel(<<nHtml>>)

\* C9: the preview server answers 200 with the content when the resolver
\* yields Rendered, Hidden or RawFile, 404 when it yields NoOutput or Dir,
\* and 500 with the error text when rendering fails.
C9_PreviewStatus ==
    ret.op = "call" =>
        IF ~ret.res.ok
        THEN ret.resp.status = 500 /\ ret.resp.body = ErrorText(ret.res.err)
        ELSE IF ret.res.val.kind \in {"NoOutput", "Dir"}
        THEN ret.resp.status = 404
        ELSE /\ ret.resp.status = 200
             /\ ret.resp.body = IF ret.res.val.kind = "RawFile"
                                THEN Node(disk, join(root, ret.res.val.path)).text
                                ELSE ret.res.val.content

\* The calls of build_and_deploy whose outcome has reached the caller: an
\* error it returned, or the result of its background task
Reported(job) == job.pc \in {"returned", "done"}

\* C3: when the outcome of a build_and_deploy call is reported, the scratch
\* directory made for the call is gone (unless the filesystem refused to
\* remove it): after a failed build, a missing script, a script that exits
\* non-zero or zero, and a script that cannot be spawned.
C3_ScratchRemovedWhenReported ==
    \A i \in DOMAIN jobs :
        (Reported(jobs[i]) /\ jobs[i].created /\ ~jobs[i].removeFailed)
            => /\ ~exists(disk, jobs[i].scratch)
               /\ Below(disk, jobs[i].scratch) = {}

\* The script could not be spawned, the task ended and the scratch is gone
C3_Witness ==
    \E i \in DOMAIN jobs :
        /\ jobs[i].pc = "done"
        /\ jobs[i].created /\ jobs[i].spawned
        /\ ~jobs[i].status.spawned
        /\ ~jobs[i].removeFailed
        /\ ~exists(disk, jobs[i].scratch)

\* C10: if the build into the scratch directory fails, or there is no
\* deploy script under the root, build_and_deploy runs no script and spawns
\* no task; a missing script is reported as ScriptMissing, which is neither
\* a build error nor a DeployError.
C10_NoScriptNoTask ==
    \A i \in DOMAIN jobs :
        (jobs[i].created /\ (~jobs[i].built \/ ~exists(disk, root \o <<nScripts, nDeploy>>)))
            => /\ jobs[i].pc = "returned"
               /\ ~jobs[i].spawned
               /\ jobs[i].runs = 0
               /\ jobs[i].result = NoResult
               /\ jobs[i].built => jobs[i].ret = ScriptMissing
               /\ ~jobs[i].built => /\ jobs[i].ret = jobs[i].build
                                    /\ jobs[i].ret.kind \in {"TargetDir", "Io", "RenderError"}

\* The site was built into the scratch directory but has no deploy script
C10_Witness ==
    \E i \in DOMAIN jobs :
        /\ jobs[i].created /\ jobs[i].built
        /\ ~exists(disk, root \o <<nScripts, nDeploy>>)
        /\ is_file(disk, root \o <<nMd>>)
        /\ jobs[i].ret = ScriptMissing

\* The background task of a job has ended after both runs of the script were
\* spawned and the scratch directory was removed
Completed(job) ==
    job.pc = "done" /\ job.output.spawned /\ job.status.spawned /\ ~job.removeFailed

\* C11: when the deploy script was spawned, the result of the job is
\* Ok(captured stdout) if and only if the run whose output was captured
\* exited with code 0, and DeployError(captured stdout) for any other exit
\* status.
C11_ResultFollowsExitCode ==
    \A i \in DOMAIN jobs :
        Completed(jobs[i]) =>
            jobs[i].result = IF jobs[i].output.code = 0
                             THEN JobOk(jobs[i].output.stdout)
                             ELSE JobErr(DeployError(jobs[i].output.stdout))

\* C12: when the deploy script cannot be spawned, the job ends with a
\* DeployError carrying the spawn error text (or, at worst, the error of the
\* cleanup): it never panics and never ends without a result.
C12_SpawnFailureIsDeployError ==
    \A i \in DOMAIN jobs :
        (jobs[i].pc = "done" /\ ~jobs[i].output.spawned) =>
            \/ jobs[i].result = JobErr(DeployError(SpawnFailure.stdout))
            \/ (jobs[i].removeFailed /\ jobs[i].result = JobErr(Io(Abs(jobs[i].scratch))))

\* C13: if removing the scratch directory fails after the script has run and
\* exited non-zero, the result of the job is still the DeployError of the
\* script, not the I/O error of the cleanup.
C13_CleanupFailureDoesNotMask ==
    \A i \in DOMAIN jobs :
        (/\ jobs[i].pc = "done"
         /\ jobs[i].output.spawned /\ jobs[i].output.code # 0
         /\ jobs[i].status.spawned /\ jobs[i].status.code # 0
         /\ jobs[i].removeFailed)
        => jobs[i].result = JobErr(DeployError(jobs[i].output.stdout))

\* The tasks spawned by a click that have not ended yet
InFlight(u) == {t \in DOMAIN u.tasks : u.tasks[t].pc \in {"spawned", "awaiting"}}

\* At most one task is in flight, and the flag is up while a task is in
\* flight or its result waits in the slot
OneInFlight ==
    /\ Cardinality(InFlight(ui)) <= 1
    /\ (InFlight(ui) # {} \/ ui.deploy_response # None) => ui.deploying

\* A deploy starts only when the flag is down at the click (at the latest
\* lowered by the poll of the same frame), and the flag goes down only when
\* the poll takes a result out of the slot
StartedWhenIdle ==
    /\ Len(ui'.tasks) > Len(ui.tasks) =>
          /\ ~ui.deploying \/ ui.deploy_response # None
          /\ InFlight(ui) = {}
          /\ ui'.deploying
    /\ (ui.deploying /\ ~ui'.deploying) =>
          (ui.deploy_response # None /\ ui'.deploy_response = None)

\* C14: in one window session at most one deploy job is in flight: a
\* build-and-deploy is started only while the deploying flag is false, and
\* the flag stays true from the start of a job until the job's result has
\* been taken from the result slot.
C14_OneDeployInFlight == []OneInFlight /\ [][StartedWhenIdle]_vars

\* A second deploy is running after the result of the first was taken
C14_Witness ==
    /\ Len(ui.tasks) = 2
    /\ ui.tasks[1].pc = "finished"
    /\ ui.tasks[2].pc = "awaiting"
    /\ jobs[ui.tasks[2].job].pc = "status"
    /\ ui.deploying
    /\ ui.deploy_response = None

\* The frame that starts a deploy neither builds nor runs anything; the
\* build and the runs of the script are steps of the task, which leave the
\* window's flag and dialogs alone; the slot is filled by the task and
\* emptied by the poll of a frame
StartReturnsAtOnce ==
    /\ Len(ui'.tasks) > Len(ui.tasks) => (disk' = disk /\ jobs' = jobs)
    /\ jobs' # jobs =>
          /\ \E t \in InFlight(ui) : ui.tasks[t].pc = "spawned" \/ ui.tasks[t].job \in DOMAIN jobs
          /\ ui'.deploying = ui.deploying
          /\ ui'.error = ui.error
          /\ ui'.message = ui.message
          /\ ui'.deploy_response = ui.deploy_response
    /\ (ui'.deploy_response # ui.deploy_response /\ ui'.deploy_response # None) =>
          /\ ui.deploy_response = None
          /\ \E t \in InFlight(ui) :
                /\ t \notin InFlight(ui')
                /\ ui'.deploy_response = Some(awaited(jobs[ui.tasks[t].job]))
          /\ ui'.error = ui.error /\ ui'.message = ui.message
          /\ ui'.deploying = ui.deploying
    /\ (ui'.deploy_response # ui.deploy_response /\ ui'.deploy_response = None) =>
          (ui.deploying /\ jobs' = jobs)

\* C15: starting a deploy never blocks the caller: the build into the
\* scratch directory and the runs of the deploy script are steps of the
\* background task, the click returns before either has happened, frames go
\* on while the job is in flight, and the result reaches the window only
\* through the poll of the slot.
C15_DeployRunsInBackground ==
    /\ [][StartReturnsAtOnce]_vars
    /\ [](InFlight(ui) # {} => ENABLED Display("none", NoPick))

\* A frame has polled the empty slot while the script of the only job was
\* between its two runs
C15_Witness ==
    /\ Len(ui.tasks) = 1
    /\ ui.tasks[1].pc = "awaiting"
    /\ jobs[ui.tasks[1].job].pc = "status"
    /\ ui.deploying /\ ui.repaint
    /\ ui.deploy_response = None
    /\ is_file(disk, jobs[ui.tasks[1].job].scratch \o <<nHtml>>)

\* The Markdown path the last resolver call rendered, <<>> when it rendered
\* none: the source of file_render, or the .md sibling of a missing .html
\* handed to server_render
RenderedSource ==
    IF ret.arg.abs \/ ret.arg.segs = <<>> \/ HasPrivateName(ret.arg.segs) THEN <<>>
    ELSE IF /\ ret.op = "file_render"
            /\ HasExtension(ret.arg.segs[Len(ret.arg.segs)], "md")
            /\ is_file(disk, root \o ret.arg.segs)
    THEN ret.arg.segs
    ELSE IF /\ ret.op = "server_render"
            /\ HasExtension(ret.arg.segs[Len(ret.arg.segs)], "html")
            /\ ~exists(disk, root \o ret.arg.segs)
            /\ is_file(disk, root \o Sibling(ret.arg.segs, "md"))
    THEN Sibling(ret.arg.segs, "md")
    ELSE <<>>

\* The front-matter of a source is absent, or it parses and names no layout
\* or one that can be read
Renders(node) ==
    \/ ~node.fm.present
    \/ /\ node.fm.valid
       /\ node.fm.hasLayout => is_file(disk, join(root, node.fm.layout))

\* C16: rendering a Markdown file yields Hidden when its front-matter has
\* published = false and Rendered when published is true or omitted or the
\* file has no front-matter; the output path is the source path with the
\* extension html.
C16_PublishedDecidesHidden ==
    (RenderedSource # <<>> /\ Renders(disk[root \o RenderedSource])) =>
        /\ ret.res.ok
        /\ ret.res.val.kind = IF Unpublished(disk[root \o RenderedSource])
                              THEN "Hidden" ELSE "Rendered"
        /\ ret.res.val.path = Rel(Sibling(RenderedSource, "html"))

\* An unpublished page with a layout was rendered as Hidden, layout applied
C16_Witness ==
    /\ ret.op = "file_render"
    /\ ret.arg = Rel(<<nMd>>)
    /\ is_file(disk, root \o <<nMd>>)
    /\ disk[root \o <<nMd>>] = MdHiddenLayout(<<"index">>)
    /\ ret.res.ok
    /\ ret.res.val.kind = "Hidden"
    /\ ret.res.val.path = Rel(<<nHtml>>)
    /\ Head(ret.res.val.content) = "<!DOCTYPE html>"

\* The positions of the list compile() returned that hold a rendering
\* (published or not) with the given output path
Renderings(path) ==
    {i \in 1..Len(ret.acts) :
        ret.acts[i].kind \in {"Rendered", "Hidden"} /\ ret.acts[i].path = path}

\* C17: the list compile() returns holds no RawFile and no Rendered whose
\* path has the extension md, and for every Markdown file under the root
\* that no private name hides it holds exactly one action: the rendering of
\* that file under its html path; nothing in the list carries the md path.
C17_MarkdownNeverReproduced ==
    (ret.op = "compile" /\ ret.res.ok) =>
        /\ \A i \in 1..Len(ret.acts) :
              ret.acts[i].kind \in {"RawFile", "Rendered"} =>
                  extension(ret.acts[i].path) # <<<<"md">>>>
        /\ \A q \in MarkdownSources(disk) :
              LET rel == Relative(root, q)
              IN /\ Cardinality(Renderings(Rel(Sibling(rel, "html")))) = 1
                 /\ \A i \in Renderings(Rel(Sibling(rel, "html"))) :
                       Ok(ret.acts[i]) = render_as_markdown(disk, Rel(rel), root)
                 /\ \A i \in 1..Len(ret.acts) : ret.acts[i].path # Rel(rel)

\* A tree with a page at the root and one in a directory was compiled into
\* two renderings and the directory
C17_Witness ==
    /\ ret.op = "compile"
    /\ ret.res.ok
    /\ is_file(disk, root \o <<nMd>>)
    /\ is_file(disk, root \o <<nDir, nMd>>)
    /\ Len(ret.acts) = 3
    /\ Renderings(Rel(<<nHtml>>)) # {}
    /\ Renderings(Rel(<<nDir, nHtml>>)) # {}

\* C18: with the site handle as the only writer, whatever calls of
\* create_page, delete_page, rename_page and paste_image came before, the
\* listing file_tree_entries returns is the one a fresh depth-first walk of
\* the site as it is now produces
C18_ListingIsFresh ==
    ret.op = "file_tree_entries" =>
        \E ord \in Orders : ret.acts = walk(disk, root, ord)

\* The number of directories open after the first i entries of a listing
Depth(L, i) ==
    Cardinality({k \in 1..i : L[k].kind = "Dir"})
    - Cardinality({k \in 1..i : L[k].kind = "CloseDir"})

\* Entry j lies after the Dir at i and before the CloseDir that matches it
Between(L, i, j) ==
    /\ i < j
    /\ L[i].kind = "Dir"
    /\ \A m \in i..j : Depth(L, m) >= Depth(L, i)

\* Dir and CloseDir nest like brackets around the entries of each directory
Balanced(L) ==
    /\ Len(L) >= 2
    /\ L[1] = TreeDir(root)
    /\ L[Len(L)] = CloseDir
    /\ \A i \in 1..(Len(L) - 1) : Depth(L, i) > 0
    /\ Depth(L, Len(L)) = 0
    /\ \A j \in 2..Len(L) :
          L[j].kind # "CloseDir" =>
              \E i \in 1..(j - 1) :
                  /\ L[i] = TreeDir(SubSeq(L[j].path, 1, Len(L[j].path) - 1))
                  /\ Between(L, i, j)

\* C19: every listing file_tree_entries returns starts with Dir(root), ends
\* with CloseDir, has more Dir than CloseDir entries in every proper prefix
\* and as many of each in all, and holds every entry of a directory between
\* that directory's Dir and the CloseDir matching it
C19_DirsBalanced ==
    ret.op = "file_tree_entries" => Balanced(ret.acts)

\* A listing returned after an edit, with a file two directories deep and
\* an entry after a directory that has been closed
C19_Witness ==
    /\ ret.op = "file_tree_entries"
    /\ calls > 0
    /\ Balanced(ret.acts)
    /\ \E j \in DOMAIN ret.acts :
          ret.acts[j].kind = "File" /\ Depth(ret.acts, j) = 2
    /\ \E j \in DOMAIN ret.acts :
          /\ ret.acts[j].kind # "CloseDir"
          /\ Depth(ret.acts, j) - (IF ret.acts[j].kind = "Dir" THEN 1 ELSE 0) = 1
          /\ \E k \in 2..(j - 1) : ret.acts[k].kind = "CloseDir"

\* A name that starts with a dot, and one that starts with an underscore
DotName(name) == name # <<>> /\ name[1] = "."
UnderscoreName(name) == name # <<>> /\ name[1] = "_"

\* The entries of a listing
Listed(L) == {L[j] : j \in DOMAIN L}

\* The paths of the site below an underscore-prefixed file or directory,
\* that file or directory included
UnderUnderscore(d) ==
    {p \in Below(d, root) :
        \E i \in (Len(root) + 1)..Len(p) : UnderscoreName(p[i])}

\* C20: a listing file_tree_entries returns names no file whose name starts
\* with a dot, and names every underscore-prefixed file and directory of
\* the site and, dot files apart, everything below such a directory
C20_DotFilesOutUnderscoreIn ==
    ret.op = "file_tree_entries" =>
        /\ \A e \in Listed(ret.acts) :
              e.kind = "File" => ~DotName(e.path[Len(e.path)])
        /\ \A p \in UnderUnderscore(disk) :
              /\ is_dir(disk, p) => TreeDir(p) \in Listed(ret.acts)
              /\ (is_file(disk, p) /\ ~DotName(p[Len(p)])) =>
                    TreeFile(p) \in Listed(ret.acts)

\* A listing of a site that holds a dot file and an underscore-prefixed
\* directory with a file in it
C20_Witness ==
    /\ ret.op = "file_tree_entries"
    /\ \E p \in Below(disk, root) : is_file(disk, p) /\ DotName(p[Len(p)])
    /\ \E p \in UnderUnderscore(disk) :
          /\ is_file(disk, p)
          /\ UnderscoreName(p[Len(p) - 1])
          /\ TreeFile(p) \in Listed(ret.acts)

\* The files and directories below the site root, the root included
UnderRoot(d) == Restrict(d, {q \in DOMAIN d : IsPrefix(root, q)})

\* C21: no step of compile, build_site or build_and_deploy creates, changes
\* or deletes a file or directory under the site root; a build_site whose
\* target fails the validity check changes nothing at all
C21_RootNeverMutated ==
    [][UnderRoot(disk') = UnderRoot(disk)]_vars

\* The paths in target that a list of actions writes or creates
Produced(acts, target) ==
    {join(target, acts[i].path) :
        i \in {k \in DOMAIN acts : acts[k].kind \in {"Rendered", "RawFile", "Dir"}}}

\* A build b into target, the root enumerated in order ord, has left in
\* target only what it produced, and the same build run again leaves the
\* same disk
BuiltOnce(b, target, ord) ==
    b.ok =>
        /\ Below(b.disk, target) \subseteq Produced(compile(b.disk, root, ord).acts, target)
        /\ build_site(b.disk, root, target, ord) = b

\* C22: whatever target held before, after a successful build_site(target)
\* every entry of target is one this build produced, and building again
\* into the same target from the unchanged root, enumerated as before,
\* leaves the same contents
C22_BuildIsCleanAndIdempotent ==
    \A target \in Targets, ord \in Orders :
        BuiltOnce(build_site(disk, root, target, ord), target, ord)

\* A second build in a row succeeded into a target that held the remains of
\* an earlier build when the site was opened; they are gone and the outputs
\* of the build are there
C22_Witness ==
    /\ ret.op = "build_site"
    /\ ret.res.ok
    /\ ret.arg = Abs(<<nOut>>)
    /\ calls = 2
    /\ ~exists(disk, <<nOut, nOld>>)
    /\ ~exists(disk, <<nOut, nUnder>>)
    /\ \E q \in Below(disk, <<nOut>>) : Len(q) > 2
    /\ \A ord \in Orders : build_site(disk, root, <<nOut>>, ord) = FsOk(disk)

\* The path names a Markdown file that exists and that no private name hides
ExistingMarkdown(d, segs) ==
    /\ segs # <<>>
    /\ ~HasPrivateName(segs)
    /\ HasExtension(segs[Len(segs)], "md")
    /\ is_file(d, root \o segs)

\* The path names an .html file that does not exist, next to an entry of the
\* same name with .md, and no private name hides it
MissingHtmlOfMarkdown(d, segs) ==
    /\ segs # <<>>
    /\ ~HasPrivateName(segs)
    /\ HasExtension(segs[Len(segs)], "html")
    /\ ~exists(d, root \o segs)
    /\ exists(d, root \o Sibling(segs, "md"))

\* C23: on every path the build resolver and the preview resolver return
\* the same result, except on an existing .md file (rendered by the build,
\* NoOutput in the preview) and on a missing .html path whose .md sibling
\* exists (NoOutput in the build, the sibling's rendering in the preview)
C23_ResolversDifferInTwoCases ==
    /\ ret.op = "file_render" =>
          IF ExistingMarkdown(disk, ret.arg.segs)
          THEN /\ ret.res = render_as_markdown(disk, ret.arg, root)
               /\ server_render(disk, ret.arg, root) = Ok(NoOutput)
          ELSE IF MissingHtmlOfMarkdown(disk, ret.arg.segs)
          THEN /\ ret.res = Ok(NoOutput)
               /\ server_render(disk, ret.arg, root)
                     = render_as_markdown(disk, Rel(Sibling(ret.arg.segs, "md")), root)
          ELSE ret.res = server_render(disk, ret.arg, root)
    /\ ret.op = "server_render" =>
          IF ExistingMarkdown(disk, ret.arg.segs)
          THEN /\ ret.res = Ok(NoOutput)
               /\ file_render(disk, ret.arg, root) # ret.res
          ELSE IF MissingHtmlOfMarkdown(disk, ret.arg.segs)
          THEN /\ ret.res = render_as_markdown(disk, Rel(Sibling(ret.arg.segs, "md")), root)
               /\ file_render(disk, ret.arg, root) = Ok(NoOutput)
               /\ ret.res # Ok(NoOutput)
          ELSE ret.res = file_render(disk, ret.arg, root)

\* The preview was asked for d/index.html, which only exists as d/index.md,
\* and rendered it, while the build resolver returns NoOutput there
C23_Witness ==
    /\ ret.op = "server_render"
    /\ ret.arg = Rel(<<nDir, nHtml>>)
    /\ MissingHtmlOfMarkdown(disk, ret.arg.segs)
    /\ ret.res.ok /\ ret.res.val.kind = "Rendered"
    /\ file_render(disk, ret.arg, root) = Ok(NoOutput)

\* C24: on a path without a private name file_render returns Dir(path) for
\* a directory, whatever its name ends in; else the rendering of an
\* existing .md file; else RawFile(path), the path as given, for any other
\* existing file; and NoOutput for a path that does not exist
C24_FileRenderRuleOrder ==
    (ret.op = "file_render" /\ ~HasPrivateName(ret.arg.segs)) =>
        ret.res =
            IF is_dir(disk, root \o ret.arg.segs) THEN Ok(Dir(ret.arg))
            ELSE IF ~exists(disk, root \o ret.arg.segs) THEN Ok(NoOutput)
            ELSE IF HasExtension(ret.arg.segs[Len(ret.arg.segs)], "md")
            THEN render_as_markdown(disk, ret.arg, root)
            ELSE Ok(RawFile(ret.arg))

\* file_render was given a directory whose name ends in .html and returned
\* Dir for it
C24_Witness ==
    /\ ret.op = "file_render"
    /\ ret.arg = Rel(<<nHtml>>)
    /\ is_dir(disk, root \o <<nHtml>>)
    /\ ret.res = Ok(Dir(Rel(<<nHtml>>)))

\* A layout with each "$title" replaced by the title and each "$content" by
\* the HTML, both put in as they are
RECURSIVE Substituted(_, _, _)
Substituted(text, title, html) ==
    IF text = <<>> THEN <<>>
    ELSE (CASE Head(text) = "$title" -> title
            [] Head(text) = "$content" -> html
            [] OTHER -> <<Head(text)>>)
         \o Substituted(Tail(text), title, html)

\* C25: the content rendered for a Markdown file whose front-matter names a
\* layout is the layout text with every "$title" replaced by the title and
\* every "$content" by the rendered HTML, the title and the HTML appearing
\* exactly as given; without a layout the content is the rendered HTML
C25_LayoutPlaceholdersReplaced ==
    (RenderedSource # <<>> /\ Renders(disk[root \o RenderedSource])) =>
        ret.res.val.content =
            IF disk[root \o RenderedSource].fm.hasLayout
            THEN Substituted(Node(disk, join(root, disk[root \o RenderedSource].fm.layout)).text,
                             disk[root \o RenderedSource].fm.title,
                             to_html(disk[root \o RenderedSource].text))
            ELSE to_html(disk[root \o RenderedSource].text)

\* C26: a deploy job that has reached the script stage and ended has run
\* the deploy script exactly once
C26_ScriptRunsOnce ==
    \A i \in DOMAIN jobs :
        (jobs[i].script /\ jobs[i].pc = "done") => jobs[i].runs = 1

\* C27: whatever the request path, the file the preview server returns or
\* renders for it lies under the site root: the path the resolver settles
\* on is relative, and joined to the root it stays below the root
C27_PreviewStaysUnderRoot ==
    (ret.op = "call" /\ ret.res.ok
        /\ ret.res.val.kind \in {"RawFile", "Rendered", "Hidden", "Dir"}) =>
        /\ ~ret.res.val.path.abs
        /\ IsPrefix(root, Resolve(disk, join(root, ret.res.val.path), <<>>))

\* C28: the Dir, RawFile and Rendered actions in a list compile() returns
\* have pairwise distinct output paths, whatever the source tree holds
C28_OutputPathsDistinct ==
    (ret.op = "compile" /\ ret.res.ok) =>
        \A i, j \in DOMAIN ret.acts :
            (/\ i # j
             /\ ret.acts[i].kind \in {"Dir", "RawFile", "Rendered"}
             /\ ret.acts[j].kind \in {"Dir", "RawFile", "Rendered"})
            => ret.acts[i].path # ret.acts[j].path

\* The flag is up with no task left to fill the slot and nothing in it: no
\* poll will ever lower the flag again, and the button stays disabled
Stranded ==
    /\ ui.deploying
    /\ InFlight(ui) = {}
    /\ ui.deploy_response = None

WrittenOnce(t, r) ==
    (t \in InFlight(ui) /\ t \notin InFlight(ui') /\ r.kind # "Panic") =>
        /\ ui.deploy_response = None
        /\ ui'.deploy_response = Some(r)

\* The slot is filled only by the step that ends a task, so a task that has
\* ended writes no second time
WrittenByTask ==
    (ui'.deploy_response # None /\ ui'.deploy_response # ui.deploy_response) =>
        \E t \in InFlight(ui) : t \notin InFlight(ui')

\* A value in the slot stays as it is until the poll of a frame takes it
\* out, under the raised flag and with no task in flight, and hands it to
\* the error or the message before anything else in the frame
TakenOnce ==
    (ui.deploy_response # None /\ ui'.deploy_response # ui.deploy_response) =>
        /\ ui.deploying
        /\ ui'.deploy_response = None
        /\ InFlight(ui) = {}
        /\ jobs' = jobs
        /\ \/ check_deploy_status(ui).error = Some(ui.deploy_response[1].err)
           \/ check_deploy_status(ui).message = Some(ui.deploy_response[1].text)

\* C30: the result slot holds a value only while the deploying flag is set;
\* each job writes its result to the slot exactly once, into the empty
\* slot, and the window takes it exactly once, so that under every
\* interleaving of the task's steps and the frames no result is lost,
\* overwritten before it is read, or delivered twice
C30_SlotDeliversEachResultOnce ==
    /\ [](ui.deploy_response # None => ui.deploying)
    /\ [][\A t \in DOMAIN ui.tasks :
             WrittenOnce(t, awaited(jobs[ui.tasks[t].job]))]_vars
    /\ [][WrittenByTask]_vars
    /\ [][TakenOnce]_vars

\* The result of a second deploy waits in the slot while the dialog still
\* shows the result of the first, which a poll took before the second began
C30_Witness ==
    /\ Len(ui.tasks) = 2
    /\ ui.tasks[1].pc = "finished"
    /\ ui.tasks[2].pc = "finished"
    /\ ui.deploying
    /\ ui.deploy_response # None
    /\ ui.error # None \/ ui.message # None
====
